---------------------------- MODULE Spec2Model ----------------------------
(***************************************************************************)
(* Model of src/client/datascience/commands/commandRegistry.ts:            *)
(* the CommandRegistry class, its register()/dispose() life cycle and its  *)
(* 29 command handlers, together with the collaborators the handlers read  *)
(* (document manager, code-lens provider, debug service, configuration     *)
(* service, notebook editor provider) and the calls they make on them.     *)
(*                                                                         *)
(* Collaborators are interfaces whose code is outside this file; the model *)
(* keeps of them only the state the registry reads and a log of the calls  *)
(* the registry makes.  Decorators (@captureTelemetry) wrap four handlers  *)
(* from outside this file and are not part of the handler bodies modelled. *)
(***************************************************************************)
EXTENDS Integers, Sequences, FiniteSets

VARIABLES
    commandListeners,   \* constructor argument: IDataScienceCommandListener[] | undefined
    disposables,        \* this.disposables
    hostLog,            \* calls made by register()/dispose(), in order
    registerCalls,      \* number of register() calls so far
    disposeCalls,       \* number of dispose() calls so far
    textDocuments,      \* documentManager.textDocuments
    codeWatchers,       \* documents the code-lens provider has a code watcher for
    activeTextEditor,   \* documentManager.activeTextEditor
    activeDebugSession, \* debugService.activeDebugSession is set
    widgetScriptSources,\* configService.getSettings().datascience.widgetScriptSources
    notebookEditor,     \* notebookEditorProvider.activeEditor
    inv                 \* the handler invocation in progress (or the last one)

registryVars == <<commandListeners, disposables, hostLog, registerCalls, disposeCalls>>
envVars == <<textDocuments, codeWatchers, activeTextEditor, activeDebugSession,
             widgetScriptSources, notebookEditor>>
vars == <<commandListeners, disposables, hostLog, registerCalls, disposeCalls,
          textDocuments, codeWatchers, activeTextEditor, activeDebugSession,
          widgetScriptSources, notebookEditor, inv>>

-----------------------------------------------------------------------------
(* Bounds of the model *)

MaxRegisterCalls == 2
MaxDisposeCalls == 2
MaxDocs == 2

Listeners == {"listenerA", "listenerB"}
Files == {"a.py", "b.py"}
FileArgs == Files \cup {""}
Lines == {0, 1}
DocIds == 1..MaxDocs

-----------------------------------------------------------------------------
(* The registry: constructor, register(), dispose() *)

NoDisposable == [kind |-> "none", n |-> 0]
serverSelectedCommand == [kind |-> "serverSelectedCommand", n |-> 0]
kernelSwitcherCommand == [kind |-> "kernelSwitcherCommand", n |-> 0]

\* One entry of hostLog: a call the registry made on a collaborator.
HostCall(op, target, arg, command, callback, thisArg, disposable) ==
    [op |-> op, target |-> target, arg |-> arg, command |-> command,
     callback |-> callback, thisArg |-> thisArg, disposable |-> disposable]

\* The (command identifier, handler method) pairs of register(), in source order.
CommandTable ==
    << <<"RunAllCells", "runAllCells">>,
       <<"RunCell", "runCell">>,
       <<"RunCurrentCell", "runCurrentCell">>,
       <<"RunCurrentCellAdvance", "runCurrentCellAndAdvance">>,
       <<"ExecSelectionInInteractiveWindow", "runSelectionOrLine">>,
       <<"RunAllCellsAbove", "runAllCellsAbove">>,
       <<"RunCellAndAllBelow", "runCellAndAllBelow">>,
       <<"RunAllCellsAbovePalette", "runAllCellsAboveFromCursor">>,
       <<"RunCellAndAllBelowPalette", "runCellAndAllBelowFromCursor">>,
       <<"RunToLine", "runToLine">>,
       <<"RunFromLine", "runFromLine">>,
       <<"RunFileInInteractiveWindows", "runFileInteractive">>,
       <<"DebugFileInInteractiveWindows", "debugFileInteractive">>,
       <<"AddCellBelow", "addCellBelow">>,
       <<"RunCurrentCellAndAddBelow", "runCurrentCellAndAddBelow">>,
       <<"DebugCell", "debugCell">>,
       <<"DebugStepOver", "debugStepOver">>,
       <<"DebugContinue", "debugContinue">>,
       <<"DebugStop", "debugStop">>,
       <<"DebugCurrentCellPalette", "debugCurrentCellFromCursor">>,
       <<"CreateNewNotebook", "createNewNotebook">>,
       <<"ViewJupyterOutput", "viewJupyterOutput">>,
       <<"ExportAsPythonScript", "exportAsPythonScript">>,
       <<"ExportToHTML", "exportToHTML">>,
       <<"ExportToPDF", "exportToPDF">>,
       <<"Export", "export">>,
       <<"GatherQuality", "reportGatherQuality">>,
       <<"EnableLoadingWidgetsFrom3rdPartySource", "enableLoadingWidgetScriptsFromThirdParty">>,
       <<"OpenStartPage", "openStartPage">> >>

\* Number of disposables the command manager has handed out so far.
Issued(log) == Cardinality({i \in 1..Len(log) : log[i].op = "registerCommand"})

\* registerCommand without the receiver: the handlers would run with no `this`.
registerCommandUnbound(st, command, callback) ==
    LET disposable == [kind |-> "registration", n |-> Issued(st.log) + 1]
    IN  [disposables |-> Append(st.disposables, disposable),
         log |-> Append(st.log,
                    HostCall("registerCommand", "commandManager", "", command, callback,
                             "undefined", disposable))]

\* registerCommand that drops the disposable the command manager returns.
registerCommandNotKept(st, command, callback) ==
    LET disposable == [kind |-> "registration", n |-> Issued(st.log) + 1]
    IN  [disposables |-> st.disposables,
         log |-> Append(st.log,
                    HostCall("registerCommand", "commandManager", "", command, callback,
                             "this", disposable))]

\* registerCommand(command, callback): bind through the command manager with the
\* registry as receiver and keep the disposable it returns.
registerCommand(st, command, callback) ==
    LET disposable == [kind |-> "registration", n |-> Issued(st.log) + 1]
    IN  [disposables |-> Append(st.disposables, disposable),
         log |-> Append(st.log,
                    HostCall("registerCommand", "commandManager", "", command, callback,
                             "this", disposable))]

RECURSIVE registerCommands(_, _)
\* The run of this.registerCommand(...) statements of register(), from entry i on.
registerCommands(st, i) ==
    IF i > Len(CommandTable) THEN st
    ELSE registerCommands(registerCommand(st, CommandTable[i][1], CommandTable[i][2]), i + 1)

\* The three selector commands register() registers first.
registerSelectors(log) ==
    log \o << HostCall("register", "commandLineCommand", "", "", "", "", NoDisposable),
              HostCall("register", "serverSelectedCommand", "", "", "", "", NoDisposable),
              HostCall("register", "kernelSwitcherCommand", "", "", "", "", NoDisposable) >>

\* if (this.commandListeners) forEach(listener => listener.register(this.commandManager))
registerListeners(log, listeners) ==
    IF listeners.injected
    THEN log \o [i \in 1..Len(listeners.list) |->
                    HostCall("register", listeners.list[i], "commandManager", "", "", "",
                             NoDisposable)]
    ELSE log

register ==
    /\ registerCalls < MaxRegisterCalls
    /\ LET st == registerCommands([disposables |-> disposables,
                                   log |-> registerSelectors(hostLog)], 1)
       IN  /\ disposables' = st.disposables
           /\ hostLog' = registerListeners(st.log, commandListeners)
    /\ registerCalls' = registerCalls + 1
    /\ UNCHANGED <<commandListeners, disposeCalls, envVars, inv>>

\* this.disposables.forEach((d) => d.dispose())
disposeAll(ds) ==
    [i \in 1..Len(ds) |-> HostCall("dispose", "disposable", "", "", "", "", ds[i])]

dispose ==
    /\ disposeCalls < MaxDisposeCalls
    /\ hostLog' = hostLog \o disposeAll(disposables)
    /\ disposeCalls' = disposeCalls + 1
    /\ UNCHANGED <<commandListeners, disposables, registerCalls, envVars, inv>>

-----------------------------------------------------------------------------
(* Collaborator state the handlers read, and the record of one invocation *)

NoEditor == [present |-> FALSE, document |-> 0, anchor |-> 0, start |-> 0]
NoNotebook == [present |-> FALSE, isUntitled |-> FALSE, isDirty |-> FALSE]

\* No handler running.  An invocation records the command, its arguments, the
\* effectful calls made on collaborators (calls), the documents passed to the
\* code-lens provider (lookups), how the handler ended (resolved / rejected for an
\* async handler, returned for a synchronous one), the promise whose continuation is
\* still to run (pending) and whether a rejection was left without a handler.
Idle == [cmd |-> "", file |-> "", input |-> "", args |-> <<>>, calls |-> <<>>,
         lookups |-> <<>>, outcome |-> "none", pending |-> "none", unhandled |-> FALSE]

\* obj.method(...): `on` is the document whose code watcher receives the call
\* (0 for every other collaborator), args the numbers and text the strings passed.
Call(obj, method, on, args, text) ==
    [obj |-> obj, method |-> method, on |-> on, args |-> args, text |-> text]

Ended(cmd, file, args, outcome, calls, lookups) ==
    [cmd |-> cmd, file |-> file, input |-> "", args |-> args, calls |-> calls,
     lookups |-> lookups, outcome |-> outcome, pending |-> "none", unhandled |-> FALSE]

\* dataScienceCodeLensProvider.getCodeWatcher(document): the watcher is named by
\* the document it watches, 0 is undefined.
providerGetCodeWatcher(document) ==
    IF document \in codeWatchers THEN document ELSE 0

\* codeWatcher.getCodeLenses(): one cell, on line 0.
getCodeLenses(watcher) ==
    << [startLine |-> 0, startCharacter |-> 0, endLine |-> 0] >>

\* getCodeWatcher that takes the first of several matching documents.
getCodeWatcherFirstMatch(file) ==
    LET possibleDocuments == {d \in textDocuments : d.fileName = file}
    IN  IF Cardinality(possibleDocuments) >= 1
        THEN LET d == CHOOSE x \in possibleDocuments :
                         \A y \in possibleDocuments : x.id <= y.id
             IN  [threw |-> FALSE, watcher |-> providerGetCodeWatcher(d.id),
                  lookups |-> <<d.id>>]
        ELSE [threw |-> FALSE, watcher |-> 0, lookups |-> <<>>]

getCodeWatcher(file) ==
    LET possibleDocuments == {d \in textDocuments : d.fileName = file}
    IN  IF Cardinality(possibleDocuments) = 1
        THEN LET d == CHOOSE x \in possibleDocuments : TRUE
             IN  [threw |-> FALSE, watcher |-> providerGetCodeWatcher(d.id),
                  lookups |-> <<d.id>>]
        ELSE IF Cardinality(possibleDocuments) > 1
        THEN [threw |-> TRUE, watcher |-> 0, lookups |-> <<>>]
        ELSE [threw |-> FALSE, watcher |-> 0, lookups |-> <<>>]

getCurrentCodeWatcher ==
    IF ~activeTextEditor.present \/ activeTextEditor.document = 0
    THEN [watcher |-> 0, lookups |-> <<>>]
    ELSE [watcher |-> providerGetCodeWatcher(activeTextEditor.document),
          lookups |-> <<activeTextEditor.document>>]

getCurrentCodeLens ==
    LET activeCodeWatcher == getCurrentCodeWatcher
    IN  IF activeTextEditor.present /\ activeCodeWatcher.watcher # 0
        THEN LET lenses == getCodeLenses(activeCodeWatcher.watcher)
                 hits == {i \in 1..Len(lenses) :
                             /\ lenses[i].endLine >= activeTextEditor.anchor
                             /\ lenses[i].startLine <= activeTextEditor.anchor}
             IN  IF hits = {}
                 THEN [found |-> FALSE, startLine |-> 0, startCharacter |-> 0,
                       lookups |-> activeCodeWatcher.lookups]
                 ELSE LET first == CHOOSE i \in hits : \A j \in hits : i <= j
                      IN  [found |-> TRUE, startLine |-> lenses[first].startLine,
                           startCharacter |-> lenses[first].startCharacter,
                           lookups |-> activeCodeWatcher.lookups]
        ELSE [found |-> FALSE, startLine |-> 0, startCharacter |-> 0,
              lookups |-> activeCodeWatcher.lookups]

-----------------------------------------------------------------------------
(* Handlers addressed by file name *)

\* Body of runCell: the watcher of the file only, with no test of file itself.
fileWatcher(cmd, file, method, args) ==
    LET codeWatcher == getCodeWatcher(file)
    IN  IF codeWatcher.threw
        THEN Ended(cmd, file, args, "rejected", <<>>, codeWatcher.lookups)
        ELSE IF codeWatcher.watcher # 0
        THEN Ended(cmd, file, args, "resolved",
                   <<Call("codeWatcher", method, codeWatcher.watcher, args, <<>>)>>,
                   codeWatcher.lookups)
        ELSE Ended(cmd, file, args, "resolved", <<>>, codeWatcher.lookups)

\* The shared body without the second step: the active editor is never tried.
fileOrCurrentWatcherNoFallback(cmd, file, method) ==
    fileWatcher(cmd, file, method, <<>>)

\* Body shared by runAllCells, runFileInteractive and debugFileInteractive:
\* the watcher of the file, else the watcher of the active editor.
fileOrCurrentWatcher(cmd, file, method) ==
    LET byFile == getCodeWatcher(file)
    IN  IF byFile.threw
        THEN Ended(cmd, file, <<>>, "rejected", <<>>, byFile.lookups)
        ELSE LET current == IF byFile.watcher = 0 THEN getCurrentCodeWatcher
                            ELSE [watcher |-> byFile.watcher, lookups |-> <<>>]
                 lookups == byFile.lookups \o current.lookups
             IN  IF current.watcher # 0
                 THEN Ended(cmd, file, <<>>, "resolved",
                            <<Call("codeWatcher", method, current.watcher, <<>>, <<>>)>>,
                            lookups)
                 ELSE Ended(cmd, file, <<>>, "resolved", <<>>, lookups)

\* Body of runAllCellsAbove, runCellAndAllBelow and debugCell: if (file) { ... }
truthyFileWatcher(cmd, file, method, args) ==
    IF file # ""
    THEN fileWatcher(cmd, file, method, args)
    ELSE Ended(cmd, file, args, "resolved", <<>>, <<>>)

Invocable == inv = Idle

runAllCells ==
    /\ Invocable
    /\ \E file \in FileArgs : inv' = fileOrCurrentWatcher("runAllCells", file, "runAllCells")
    /\ UNCHANGED <<registryVars, envVars>>

runFileInteractive ==
    /\ Invocable
    /\ \E file \in FileArgs :
          inv' = fileOrCurrentWatcher("runFileInteractive", file, "runFileInteractive")
    /\ UNCHANGED <<registryVars, envVars>>

debugFileInteractive ==
    /\ Invocable
    /\ \E file \in FileArgs :
          inv' = fileOrCurrentWatcher("debugFileInteractive", file, "debugFileInteractive")
    /\ UNCHANGED <<registryVars, envVars>>

runCell ==
    /\ Invocable
    /\ \E file \in FileArgs, startLine \in Lines :
          inv' = fileWatcher("runCell", file, "runCell", <<startLine, 0, startLine + 1, 0>>)
    /\ UNCHANGED <<registryVars, envVars>>

runAllCellsAbove ==
    /\ Invocable
    /\ \E file \in FileArgs, stopLine \in Lines :
          inv' = truthyFileWatcher("runAllCellsAbove", file, "runAllCellsAbove",
                                   <<stopLine, 0>>)
    /\ UNCHANGED <<registryVars, envVars>>

runCellAndAllBelow ==
    /\ Invocable
    /\ \E file \in FileArgs, startLine \in Lines :
          inv' = truthyFileWatcher("runCellAndAllBelow", file, "runCellAndAllBelow",
                                   <<startLine, 0>>)
    /\ UNCHANGED <<registryVars, envVars>>

debugCell ==
    /\ Invocable
    /\ \E file \in FileArgs, startLine \in Lines :
          inv' = truthyFileWatcher("debugCell", file, "debugCell",
                                   <<startLine, 0, startLine + 1, 0>>)
    /\ UNCHANGED <<registryVars, envVars>>

-----------------------------------------------------------------------------
(* Handlers addressed by the active editor *)

\* Body of runCurrentCell, runCurrentCellAndAdvance, runSelectionOrLine and
\* runCurrentCellAndAddBelow: the active watcher, if any, gets one call.
currentWatcher(cmd, method, args) ==
    LET activeCodeWatcher == getCurrentCodeWatcher
    IN  IF activeCodeWatcher.watcher # 0
        THEN Ended(cmd, "", <<>>, "resolved",
                   <<Call("codeWatcher", method, activeCodeWatcher.watcher, args, <<>>)>>,
                   activeCodeWatcher.lookups)
        ELSE Ended(cmd, "", <<>>, "resolved", <<>>, activeCodeWatcher.lookups)

\* Body of runToLine, runFromLine and addCellBelow: the active watcher and the
\* active editor (whose selection is always set) are both required.
currentWatcherAndEditor(cmd, method, args) ==
    LET activeCodeWatcher == getCurrentCodeWatcher
    IN  IF activeCodeWatcher.watcher # 0 /\ activeTextEditor.present
        THEN Ended(cmd, "", <<>>, "resolved",
                   <<Call("codeWatcher", method, activeCodeWatcher.watcher, args, <<>>)>>,
                   activeCodeWatcher.lookups)
        ELSE Ended(cmd, "", <<>>, "resolved", <<>>, activeCodeWatcher.lookups)

\* Body of runAllCellsAboveFromCursor, runCellAndAllBelowFromCursor and
\* debugCurrentCellFromCursor: the code lens under the cursor, then the watcher.
currentLensWatcher(cmd, method, withStart) ==
    LET currentCodeLens == getCurrentCodeLens
    IN  IF currentCodeLens.found
        THEN LET activeCodeWatcher == getCurrentCodeWatcher
                 lookups == currentCodeLens.lookups \o activeCodeWatcher.lookups
                 args == IF withStart
                         THEN <<currentCodeLens.startLine, currentCodeLens.startCharacter>>
                         ELSE <<>>
             IN  IF activeCodeWatcher.watcher # 0
                 THEN Ended(cmd, "", <<>>, "resolved",
                            <<Call("codeWatcher", method, activeCodeWatcher.watcher, args,
                                   <<>>)>>,
                            lookups)
                 ELSE Ended(cmd, "", <<>>, "resolved", <<>>, lookups)
        ELSE Ended(cmd, "", <<>>, "resolved", <<>>, currentCodeLens.lookups)

runCurrentCell ==
    /\ Invocable
    /\ inv' = currentWatcher("runCurrentCell", "runCurrentCell", <<>>)
    /\ UNCHANGED <<registryVars, envVars>>

runCurrentCellAndAdvance ==
    /\ Invocable
    /\ inv' = currentWatcher("runCurrentCellAndAdvance", "runCurrentCellAndAdvance", <<>>)
    /\ UNCHANGED <<registryVars, envVars>>

runSelectionOrLine ==
    /\ Invocable
    /\ inv' = currentWatcher("runSelectionOrLine", "runSelectionOrLine",
                             <<activeTextEditor.document>>)
    /\ UNCHANGED <<registryVars, envVars>>

runCurrentCellAndAddBelow ==
    /\ Invocable
    /\ inv' = currentWatcher("runCurrentCellAndAddBelow", "runCurrentCellAndAddBelow", <<>>)
    /\ UNCHANGED <<registryVars, envVars>>

runToLine ==
    /\ Invocable
    /\ inv' = currentWatcherAndEditor("runToLine", "runToLine", <<activeTextEditor.start>>)
    /\ UNCHANGED <<registryVars, envVars>>

runFromLine ==
    /\ Invocable
    /\ inv' = currentWatcherAndEditor("runFromLine", "runFromLine",
                                      <<activeTextEditor.start>>)
    /\ UNCHANGED <<registryVars, envVars>>

addCellBelow ==
    /\ Invocable
    /\ inv' = currentWatcherAndEditor("addCellBelow", "addEmptyCellToBottom", <<>>)
    /\ UNCHANGED <<registryVars, envVars>>

runAllCellsAboveFromCursor ==
    /\ Invocable
    /\ inv' = currentLensWatcher("runAllCellsAboveFromCursor", "runAllCellsAbove", TRUE)
    /\ UNCHANGED <<registryVars, envVars>>

runCellAndAllBelowFromCursor ==
    /\ Invocable
    /\ inv' = currentLensWatcher("runCellAndAllBelowFromCursor", "runCellAndAllBelow", TRUE)
    /\ UNCHANGED <<registryVars, envVars>>

debugCurrentCellFromCursor ==
    /\ Invocable
    /\ inv' = currentLensWatcher("debugCurrentCellFromCursor", "debugCurrentCell", FALSE)
    /\ UNCHANGED <<registryVars, envVars>>

-----------------------------------------------------------------------------
(* Debug commands *)

\* The debug command body without the test for an active debug session.
debugCommandUnguarded(cmd, workbenchCommand) ==
    Ended(cmd, "", <<>>, "resolved",
          <<Call("commandManager", "executeCommand", 0, <<>>, <<workbenchCommand>>)>>,
          <<>>)

\* Body of debugStepOver, debugStop and debugContinue.
debugCommand(cmd, workbenchCommand) ==
    IF activeDebugSession
    THEN Ended(cmd, "", <<>>, "resolved",
               <<Call("commandManager", "executeCommand", 0, <<>>, <<workbenchCommand>>)>>,
               <<>>)
    ELSE Ended(cmd, "", <<>>, "resolved", <<>>, <<>>)

debugStepOver ==
    /\ Invocable
    /\ inv' = debugCommand("debugStepOver", "workbench.action.debug.stepOver")
    /\ UNCHANGED <<registryVars, envVars>>

debugStop ==
    /\ Invocable
    /\ inv' = debugCommand("debugStop", "workbench.action.debug.stop")
    /\ UNCHANGED <<registryVars, envVars>>

debugContinue ==
    /\ Invocable
    /\ inv' = debugCommand("debugContinue", "workbench.action.debug.continue")
    /\ UNCHANGED <<registryVars, envVars>>

-----------------------------------------------------------------------------
(* Notebook, start page, output channel, gather survey *)

createNewNotebook ==
    /\ Invocable
    /\ inv' = Ended("createNewNotebook", "", <<>>, "resolved",
                    <<Call("notebookEditorProvider", "createNew", 0, <<>>, <<>>)>>, <<>>)
    /\ UNCHANGED <<registryVars, envVars>>

openStartPage ==
    /\ Invocable
    /\ inv' = Ended("openStartPage", "", <<>>, "resolved",
                    <<Call("startPage", "open", 0, <<>>, <<>>)>>, <<>>)
    /\ UNCHANGED <<registryVars, envVars>>

viewJupyterOutput ==
    /\ Invocable
    /\ inv' = Ended("viewJupyterOutput", "", <<>>, "returned",
                    <<Call("jupyterOutput", "show", 0, <<>>, <<"true">>)>>, <<>>)
    /\ UNCHANGED <<registryVars, envVars>>

exportAsPythonScript ==
    /\ Invocable
    /\ inv' = Ended("exportAsPythonScript", "", <<>>, "returned", <<>>, <<>>)
    /\ UNCHANGED <<registryVars, envVars>>

exportToHTML ==
    /\ Invocable
    /\ inv' = Ended("exportToHTML", "", <<>>, "returned", <<>>, <<>>)
    /\ UNCHANGED <<registryVars, envVars>>

exportToPDF ==
    /\ Invocable
    /\ inv' = Ended("exportToPDF", "", <<>>, "returned", <<>>, <<>>)
    /\ UNCHANGED <<registryVars, envVars>>

GatherAnswers == {"no", "yes", "maybe"}

\* reportGatherQuality that opens the survey without sending the telemetry event.
reportGatherQualityCallsNoTelemetry(val) ==
    << Call("env", "openExternal", 0, <<>>,
            <<"https://aka.ms/gathersurvey?succeed=", val>>) >>

reportGatherQualityCalls(val) ==
    << Call("telemetry", "sendTelemetryEvent", 0, <<>>,
            <<"GatherQualityReport", IF val = "no" THEN "no" ELSE "yes">>),
       Call("env", "openExternal", 0, <<>>,
            <<"https://aka.ms/gathersurvey?succeed=", val>>) >>

reportGatherQuality ==
    /\ Invocable
    /\ \E val \in GatherAnswers :
          inv' = [Ended("reportGatherQuality", "", <<>>, "returned",
                        reportGatherQualityCalls(val), <<>>) EXCEPT !.input = val]
    /\ UNCHANGED <<registryVars, envVars>>

-----------------------------------------------------------------------------
(* enableLoadingWidgetScriptsFromThirdParty and its promise chain *)

ThirdPartySources == <<"jsdelivr.com", "unpkg.com">>

\* The synchronous part: return at once when sources are configured, else start
\* the update and return with the promise chain pending.
enableLoadingWidgetScriptsFromThirdPartyBody ==
    IF Len(widgetScriptSources) > 0
    THEN Ended("enableLoadingWidgetScriptsFromThirdParty", "", <<>>, "returned", <<>>, <<>>)
    ELSE [Ended("enableLoadingWidgetScriptsFromThirdParty", "", <<>>, "returned",
                <<Call("configService", "updateSetting", 0, <<>>,
                       <<"dataScience.widgetScriptSources">> \o ThirdPartySources
                           \o <<"undefined", "ConfigurationTarget.Global">>)>>,
                <<>>)
          EXCEPT !.pending = "updateSetting"]

enableLoadingWidgetScriptsFromThirdParty ==
    /\ Invocable
    /\ inv' = enableLoadingWidgetScriptsFromThirdPartyBody
    /\ UNCHANGED <<registryVars, envVars>>

\* The continuation attached with finally() instead of then(): it also runs when
\* the update was rejected.
afterUpdateSettingAlways(i, fulfilled) ==
    [i EXCEPT !.calls = Append(@, Call("appShell", "showInformationMessage", 0, <<>>,
                                       <<"loadThirdPartyWidgetScriptsPostEnabled">>)),
              !.pending = "none"]

\* .then(() => appShell.showInformationMessage(...).then(noop, noop)).catch(noop)
\* The message's own promise has only no-op continuations: nothing stays pending.
afterUpdateSetting(i, fulfilled) ==
    IF fulfilled
    THEN [i EXCEPT !.calls = Append(@, Call("appShell", "showInformationMessage", 0, <<>>,
                                            <<"loadThirdPartyWidgetScriptsPostEnabled">>)),
                   !.pending = "none"]
    ELSE [i EXCEPT !.pending = "none"]

\* The configuration service settles the update: fulfilled (the setting now holds
\* the new value) or rejected.
updateSettingSettled ==
    /\ inv.pending = "updateSetting"
    /\ \E fulfilled \in BOOLEAN :
          /\ inv' = afterUpdateSetting(inv, fulfilled)
          /\ widgetScriptSources' = IF fulfilled THEN ThirdPartySources
                                    ELSE widgetScriptSources
    /\ UNCHANGED <<registryVars, textDocuments, codeWatchers, activeTextEditor,
                   activeDebugSession, notebookEditor>>

-----------------------------------------------------------------------------
(* export and its promise chain *)

ExportLabels == {"Python Script", "HTML", "PDF"}

\* getExportQuickPickItems(): the labels, in order.
getExportQuickPickItems == <<"Python Script", "HTML", "PDF">>

export ==
    /\ Invocable
    /\ inv' = [Ended("export", "", <<>>, "returned",
                     <<Call("applicationShell", "showQuickPick", 0, <<>>,
                            getExportQuickPickItems \o <<"Export As...">>)>>, <<>>)
               EXCEPT !.pending = "showQuickPick"]
    /\ UNCHANGED <<registryVars, envVars>>

\* verifySaved(): ask to save only a titled notebook with unsaved changes.
verifySaved(i) ==
    IF notebookEditor.present /\ notebookEditor.isUntitled THEN i
    ELSE IF ~(notebookEditor.present /\ notebookEditor.isDirty) THEN i
    ELSE [i EXCEPT !.calls = Append(@, Call("applicationShell", "showInformationMessage",
                                            0, <<>>,
                                            <<"exportSaveFilePrompt", "exportSaveFileYes",
                                              "exportSaveFileCancel">>)),
                   !.pending = "savePrompt"]

\* showExportQuickPick() settles, then export()'s .then(...).catch(): a rejection
\* skips the continuation and, catch() having no handler, stays unhandled.  A pick
\* (or none: picked = "") runs verifySaved() and the picked item's empty handler.
afterShowQuickPick(i, rejected, picked) ==
    IF rejected
    THEN [i EXCEPT !.pending = "none", !.unhandled = TRUE]
    ELSE verifySaved([i EXCEPT !.pending = "none", !.input = picked])

showQuickPickSettled ==
    /\ inv.pending = "showQuickPick"
    /\ \/ inv' = afterShowQuickPick(inv, TRUE, "")
       \/ \E picked \in ExportLabels \cup {""} : inv' = afterShowQuickPick(inv, FALSE, picked)
    /\ UNCHANGED <<registryVars, envVars>>

\* getFileSaveLocation(): open the save dialog; its result is dropped.
getFileSaveLocation(i) ==
    [i EXCEPT !.calls = Append(@, Call("applicationShell", "showSaveDialog", 0, <<>>,
                                       <<"Juypter Notebooks", "ipynb">>))]

\* The save prompt settles: only the answer yes goes on to the save dialog; a
\* rejection has no handler.
afterSavePrompt(i, rejected, choice) ==
    IF rejected
    THEN [i EXCEPT !.pending = "none", !.unhandled = TRUE]
    ELSE IF choice = "exportSaveFileYes"
    THEN getFileSaveLocation([i EXCEPT !.pending = "none"])
    ELSE [i EXCEPT !.pending = "none"]

savePromptSettled ==
    /\ inv.pending = "savePrompt"
    /\ \/ inv' = afterSavePrompt(inv, TRUE, "")
       \/ \E choice \in {"exportSaveFileYes", "exportSaveFileCancel", ""} :
             inv' = afterSavePrompt(inv, FALSE, choice)
    /\ UNCHANGED <<registryVars, envVars>>

-----------------------------------------------------------------------------
(* The host: invocations end, documents, editors and sessions come and go *)

\* The host may change between invocations and while a promise is pending; a
\* handler's synchronous part runs to its end without interleaving.
HostMayAct == inv = Idle \/ inv.pending # "none"

\* The finished invocation is taken by the caller.
complete ==
    /\ inv.outcome # "none"
    /\ inv.pending = "none"
    /\ inv' = Idle
    /\ UNCHANGED <<registryVars, envVars>>

openTextDocument ==
    /\ HostMayAct
    /\ \E id \in DocIds, fileName \in Files :
          /\ \A d \in textDocuments : d.id # id
          /\ textDocuments' = textDocuments \cup {[id |-> id, fileName |-> fileName]}
    /\ UNCHANGED <<registryVars, codeWatchers, activeTextEditor, activeDebugSession,
                   widgetScriptSources, notebookEditor, inv>>

closeTextDocument ==
    /\ HostMayAct
    /\ \E d \in textDocuments :
          /\ textDocuments' = textDocuments \ {d}
          /\ codeWatchers' = codeWatchers \ {d.id}
          /\ activeTextEditor' = IF activeTextEditor.document = d.id THEN NoEditor
                                 ELSE activeTextEditor
    /\ UNCHANGED <<registryVars, activeDebugSession, widgetScriptSources, notebookEditor,
                   inv>>

\* The code-lens provider creates a code watcher for an open document.
createCodeWatcher ==
    /\ HostMayAct
    /\ \E d \in textDocuments :
          /\ d.id \notin codeWatchers
          /\ codeWatchers' = codeWatchers \cup {d.id}
    /\ UNCHANGED <<registryVars, textDocuments, activeTextEditor, activeDebugSession,
                   widgetScriptSources, notebookEditor, inv>>

\* An editor becomes active (on an open document, or with no document), or none.
changeActiveTextEditor ==
    /\ HostMayAct
    /\ \E document \in {0} \cup {d.id : d \in textDocuments}, anchor \in Lines,
          start \in Lines, present \in BOOLEAN :
          /\ start <= anchor
          /\ activeTextEditor' = IF present
                                 THEN [present |-> TRUE, document |-> document,
                                       anchor |-> anchor, start |-> start]
                                 ELSE NoEditor
          /\ activeTextEditor' # activeTextEditor
    /\ UNCHANGED <<registryVars, textDocuments, codeWatchers, activeDebugSession,
                   widgetScriptSources, notebookEditor, inv>>

changeDebugSession ==
    /\ HostMayAct
    /\ activeDebugSession' = ~activeDebugSession
    /\ UNCHANGED <<registryVars, textDocuments, codeWatchers, activeTextEditor,
                   widgetScriptSources, notebookEditor, inv>>

\* The user clears the widget script sources in the settings.
clearWidgetScriptSources ==
    /\ HostMayAct
    /\ Len(widgetScriptSources) > 0
    /\ widgetScriptSources' = <<>>
    /\ UNCHANGED <<registryVars, textDocuments, codeWatchers, activeTextEditor,
                   activeDebugSession, notebookEditor, inv>>

changeNotebookEditor ==
    /\ HostMayAct
    /\ \E present \in BOOLEAN, isUntitled \in BOOLEAN, isDirty \in BOOLEAN :
          /\ notebookEditor' = IF present
                               THEN [present |-> TRUE, isUntitled |-> isUntitled,
                                     isDirty |-> isDirty]
                               ELSE NoNotebook
          /\ notebookEditor' # notebookEditor
    /\ UNCHANGED <<registryVars, textDocuments, codeWatchers, activeTextEditor,
                   activeDebugSession, widgetScriptSources, inv>>

-----------------------------------------------------------------------------
(* Initial state: the registry as the constructor leaves it *)

ListenerLists ==
    {<<>>} \cup {<<l>> : l \in Listeners}
           \cup {p \in Listeners \X Listeners : p[1] # p[2]}

Init ==
    /\ commandListeners \in
          {[injected |-> FALSE, list |-> <<>>]} \cup
          {[injected |-> TRUE, list |-> l] : l \in ListenerLists}
    /\ disposables = <<serverSelectedCommand, kernelSwitcherCommand>>
    /\ hostLog = <<>>
    /\ registerCalls = 0
    /\ disposeCalls = 0
    /\ textDocuments = {}
    /\ codeWatchers = {}
    /\ activeTextEditor = NoEditor
    /\ activeDebugSession = FALSE
    /\ widgetScriptSources = <<>>
    /\ notebookEditor = NoNotebook
    /\ inv = Idle

NextRegistry == register \/ dispose

NextWatcherCommands ==
    \/ runAllCells
    \/ runFileInteractive
    \/ debugFileInteractive
    \/ runCell
    \/ runAllCellsAbove
    \/ runCellAndAllBelow
    \/ debugCell
    \/ runCurrentCell
    \/ runCurrentCellAndAdvance
    \/ runSelectionOrLine
    \/ runCurrentCellAndAddBelow
    \/ runToLine
    \/ runFromLine
    \/ addCellBelow
    \/ runAllCellsAboveFromCursor
    \/ runCellAndAllBelowFromCursor
    \/ debugCurrentCellFromCursor

NextShellCommands ==
    \/ debugStepOver
    \/ debugStop
    \/ debugContinue
    \/ createNewNotebook
    \/ openStartPage
    \/ viewJupyterOutput
    \/ exportAsPythonScript
    \/ exportToHTML
    \/ exportToPDF
    \/ reportGatherQuality
    \/ enableLoadingWidgetScriptsFromThirdParty
    \/ updateSettingSettled
    \/ export
    \/ showQuickPickSettled
    \/ savePromptSettled

NextDocuments ==
    \/ openTextDocument
    \/ closeTextDocument
    \/ createCodeWatcher
    \/ changeActiveTextEditor

NextShell ==
    \/ changeDebugSession
    \/ clearWidgetScriptSources
    \/ changeNotebookEditor

NextCommands ==
    \/ NextWatcherCommands
    \/ NextShellCommands
    \/ NextDocuments
    \/ NextShell
    \/ complete

\* The registry's life cycle: register() and dispose() calls in any order.
SpecRegistry == Init /\ [][NextRegistry]_vars

\* The handlers never read the listener list: the command specification starts
\* from the registry built without listeners.
InitCommands == Init /\ ~commandListeners.injected

\* Every handler, invoked in every state of the collaborators.
SpecCommands == InitCommands /\ [][NextCommands]_vars

-----------------------------------------------------------------------------
(* Properties of the registry's life cycle (checked under SpecRegistry) *)

RegistrationPositions == {i \in 1..Len(hostLog) : hostLog[i].op = "registerCommand"}

ListenerPositions ==
    {i \in 1..Len(hostLog) : hostLog[i].op = "register" /\ hostLog[i].target \in Listeners}

DisposePositions == {i \in 1..Len(hostLog) : hostLog[i].op = "dispose"}

\* The command identifiers the command surface is said to consist of.
ClaimedCommandIds ==
    {"RunAllCells", "RunCell", "RunCurrentCell", "RunCurrentCellAdvance",
     "ExecSelectionInInteractiveWindow", "RunAllCellsAbove", "RunCellAndAllBelow",
     "RunAllCellsAbovePalette", "RunCellAndAllBelowPalette", "RunToLine", "RunFromLine",
     "RunFileInInteractiveWindows", "DebugFileInInteractiveWindows", "AddCellBelow",
     "RunCurrentCellAndAddBelow", "DebugCell", "DebugStepOver", "DebugContinue",
     "DebugStop", "DebugCurrentCellPalette", "CreateNewNotebook", "ViewJupyterOutput",
     "ExportAsPythonScript", "ExportToHTML", "ExportToPDF", "Export", "GatherQuality",
     "EnableLoadingWidgetsFrom3rdPartySource", "OpenStartPage"}

\* C1: after one register() on a fresh registry, each of the 29 command identifiers
\* has been passed to commandManager.registerCommand exactly once, with a handler of
\* its own and the registry as receiver, and nothing else has; every injected listener
\* has had register(commandManager) called once, after all the command bindings, and
\* no listener call is made when the listener list is undefined.
C1_RegisterBindsCommandSurface ==
    registerCalls = 1 =>
        /\ Cardinality(ClaimedCommandIds) = 29
        /\ Cardinality(RegistrationPositions) = 29
        /\ \A c \in ClaimedCommandIds :
              Cardinality({i \in RegistrationPositions : hostLog[i].command = c}) = 1
        /\ \A i \in RegistrationPositions :
              /\ hostLog[i].target = "commandManager"
              /\ hostLog[i].thisArg = "this"
              /\ \A j \in RegistrationPositions :
                    i # j => hostLog[i].callback # hostLog[j].callback
        /\ \A i \in ListenerPositions :
              /\ hostLog[i].arg = "commandManager"
              /\ \A j \in RegistrationPositions : j < i
        /\ \A l \in Listeners :
              Cardinality({i \in ListenerPositions : hostLog[i].target = l}) =
                 IF /\ commandListeners.injected
                    /\ \E k \in 1..Len(commandListeners.list) : commandListeners.list[k] = l
                 THEN 1 ELSE 0

\* register() has run once with two listeners injected.
C1_Witness ==
    /\ registerCalls = 1
    /\ commandListeners.injected
    /\ Len(commandListeners.list) = 2
    /\ Cardinality(ListenerPositions) = 2

\* C3: right after a dispose() call, every disposable that registerCommand returned
\* during the register() calls so far has had dispose() called on it since it was
\* returned, and so have the server-selector and kernel-switcher commands.
C3_DisposeReleasesEveryRegistration ==
    (Len(hostLog) > 0 /\ hostLog[Len(hostLog)].op = "dispose") =>
        /\ \A j \in RegistrationPositions :
              \E i \in DisposePositions :
                 i > j /\ hostLog[i].disposable = hostLog[j].disposable
        /\ \A d \in {serverSelectedCommand, kernelSwitcherCommand} :
              \E i \in DisposePositions : hostLog[i].disposable = d

\* dispose() has just run after two register() calls.
C3_Witness ==
    /\ registerCalls = 2
    /\ Len(hostLog) > 0
    /\ hostLog[Len(hostLog)].op = "dispose"
    /\ Cardinality(RegistrationPositions) = 58

-----------------------------------------------------------------------------
(* Properties of the handlers (checked under SpecCommands).  A finished    *)
(* synchronous invocation stays in inv, beside the collaborator state it   *)
(* ran in, until the caller takes it.                                      *)

Matches(file) == {d \in textDocuments : d.fileName = file}

FileOnlyCommands == {"runCell", "runAllCellsAbove", "runCellAndAllBelow", "debugCell"}
FileOrCurrentCommands == {"runAllCells", "runFileInteractive", "debugFileInteractive"}
MultiCallCommands == {"reportGatherQuality", "enableLoadingWidgetScriptsFromThirdParty",
                      "export"}

\* What the code-lens provider holds for a document (0: nothing).
WatcherHeldFor(document) == IF document \in codeWatchers THEN document ELSE 0

WatcherOfActiveEditor ==
    IF activeTextEditor.present /\ activeTextEditor.document # 0
    THEN WatcherHeldFor(activeTextEditor.document)
    ELSE 0

C4_LookupByFileName ==
    (inv.cmd \in FileOnlyCommands \cup FileOrCurrentCommands /\ inv.outcome # "none") =>
        LET m == Matches(inv.file)
        IN  /\ Cardinality(m) > 1 =>
                  /\ inv.outcome = "rejected"
                  /\ inv.calls = <<>>
                  /\ inv.lookups = <<>>
            /\ Cardinality(m) = 0 =>
                  /\ inv.outcome = "resolved"
                  /\ inv.cmd \in FileOnlyCommands =>
                        inv.lookups = <<>> /\ inv.calls = <<>>
                  /\ inv.cmd \in FileOrCurrentCommands =>
                        \A k \in 1..Len(inv.lookups) :
                           inv.lookups[k] = activeTextEditor.document
            /\ Cardinality(m) = 1 =>
                  /\ inv.outcome = "resolved"
                  /\ Len(inv.lookups) >= 1
                  /\ \A d \in m : inv.lookups[1] = d.id
                  /\ inv.cmd \in FileOnlyCommands =>
                        \A d \in m :
                           inv.calls =
                              IF WatcherHeldFor(d.id) # 0
                              THEN <<Call("codeWatcher", inv.cmd, d.id, inv.args, <<>>)>>
                              ELSE <<>>

\* runCell was given a file that two open documents carry, one of them watched.
C4_Witness ==
    /\ inv.cmd = "runCell"
    /\ inv.outcome = "rejected"
    /\ Cardinality(Matches(inv.file)) = 2
    /\ \E d \in Matches(inv.file) : d.id \in codeWatchers

\* The watcher the two steps yield: that of the single document named file if the
\* provider has one, otherwise that of the active editor's document.
TwoStepWatcher(file) ==
    LET m == Matches(file)
        byFile == IF Cardinality(m) = 1
                  THEN WatcherHeldFor((CHOOSE d \in m : TRUE).id)
                  ELSE 0
    IN  IF byFile # 0 THEN byFile ELSE WatcherOfActiveEditor

TwoStepOutcome ==
    /\ inv.outcome = "resolved"
    /\ inv.calls =
          IF TwoStepWatcher(inv.file) # 0
          THEN <<Call("codeWatcher", inv.cmd, TwoStepWatcher(inv.file), <<>>, <<>>)>>
          ELSE <<>>

\* C5 as stated: runAllCells, runFileInteractive and debugFileInteractive call their
\* watcher method exactly once on the watcher of the single open document named
\* file, otherwise on the watcher of the active editor's document, and resolve
\* without a call when neither exists.
C5_TwoStepResolution ==
    (inv.cmd \in FileOrCurrentCommands /\ inv.outcome # "none") => TwoStepOutcome

\* C5 as amended: the same, except that when more than one open document is named
\* file the command rejects with the document-mismatch error and calls no watcher
\* method, whatever the active editor is.
C5_TwoStepResolutionUnlessAmbiguous ==
    (inv.cmd \in FileOrCurrentCommands /\ inv.outcome # "none") =>
        IF Cardinality(Matches(inv.file)) > 1
        THEN inv.outcome = "rejected" /\ inv.calls = <<>>
        ELSE TwoStepOutcome

\* runFileInteractive fell back to the active editor's watcher: the one document
\* named file has no watcher.
C5_Witness ==
    /\ inv.cmd = "runFileInteractive"
    /\ Cardinality(Matches(inv.file)) = 1
    /\ \A d \in Matches(inv.file) : d.id \notin codeWatchers
    /\ WatcherOfActiveEditor # 0
    /\ Len(inv.calls) = 1

WorkbenchCommandOf(cmd) ==
    CASE cmd = "debugStepOver" -> "workbench.action.debug.stepOver"
      [] cmd = "debugContinue" -> "workbench.action.debug.continue"
      [] cmd = "debugStop" -> "workbench.action.debug.stop"

\* C6: debugStepOver, debugContinue and debugStop execute their workbench command
\* (stepOver, continue, stop) if and only if a debug session is active at the call;
\* with none they execute nothing.
C6_DebugCommandsOnlyInDebugMode ==
    (inv.cmd \in {"debugStepOver", "debugContinue", "debugStop"} /\ inv.outcome # "none") =>
        inv.calls =
           IF activeDebugSession
           THEN <<Call("commandManager", "executeCommand", 0, <<>>,
                       <<WorkbenchCommandOf(inv.cmd)>>)>>
           ELSE <<>>

\* debugContinue ran with a debug session active.
C6_Witness ==
    /\ inv.cmd = "debugContinue"
    /\ activeDebugSession
    /\ Len(inv.calls) = 1

UpdateSettingCall ==
    Call("configService", "updateSetting", 0, <<>>,
         <<"dataScience.widgetScriptSources", "jsdelivr.com", "unpkg.com", "undefined",
           "ConfigurationTarget.Global">>)

RestartKernelMessage ==
    Call("appShell", "showInformationMessage", 0, <<>>,
         <<"loadThirdPartyWidgetScriptsPostEnabled">>)

EnableInvoked ==
    inv = Idle /\ inv'.cmd = "enableLoadingWidgetScriptsFromThirdParty"

EnableUpdateSettled ==
    /\ inv.cmd = "enableLoadingWidgetScriptsFromThirdParty"
    /\ inv.pending = "updateSetting"
    /\ inv'.pending # "updateSetting"

\* C7: invoked with widget script sources configured, the command makes no call;
\* otherwise it makes the one update of dataScience.widgetScriptSources to
\* jsdelivr.com and unpkg.com at the Global target and shows nothing yet.  When the
\* update settles, the restart-kernel message is shown if and only if the update
\* took effect, and no rejection is left unhandled; the command itself returns.
C7_UpdateThenNotify ==
    [][ /\ EnableInvoked =>
            /\ inv'.outcome = "returned"
            /\ IF Len(widgetScriptSources) > 0
               THEN inv'.calls = <<>> /\ inv'.pending = "none"
               ELSE inv'.calls = <<UpdateSettingCall>> /\ inv'.pending = "updateSetting"
        /\ EnableUpdateSettled =>
            /\ inv.calls = <<UpdateSettingCall>>
            /\ inv'.pending = "none"
            /\ ~inv'.unhandled
            /\ inv'.outcome = "returned"
            /\ IF widgetScriptSources' = <<"jsdelivr.com", "unpkg.com">>
               THEN inv'.calls = <<UpdateSettingCall, RestartKernelMessage>>
               ELSE inv'.calls = <<UpdateSettingCall>>
      ]_vars

\* The update succeeded and the message was shown.
C7_Witness ==
    /\ inv.cmd = "enableLoadingWidgetScriptsFromThirdParty"
    /\ inv.calls = <<UpdateSettingCall, RestartKernelMessage>>
    /\ widgetScriptSources = <<"jsdelivr.com", "unpkg.com">>

=============================================================================
